---------------------------- MODULE Spec2Model ----------------------------
(***************************************************************************)
(* Model of the serial monitor of src/src/main.rs: the control (UI)        *)
(* thread of SerialMonitorApp, the reader threads spawned by connect(),    *)
(* the mpsc channel between them, the mutex-protected port handle, the     *)
(* line parser parse_data and the four PlotData sample buffers.            *)
(*                                                                         *)
(* Text is a sequence of atoms.  An atom is either one whitespace          *)
(* character (" " or "\n") or a run of non-whitespace characters; two      *)
(* adjacent non-whitespace atoms form one whitespace-delimited token.      *)
(* The alphabet is chosen so that no concatenation of two or more of its   *)
(* atoms is a float literal: a token parses as f64 exactly when it is one  *)
(* atom of Numerals.                                                       *)
(***************************************************************************)
EXTENDS Integers, Sequences, FiniteSets, TLC

---------------------------------------------------------------------------
(* Bounds of the model.                                                    *)

\* successful opens (handles and reader threads ever created)
MaxConn == 2
\* fragments a reader forwards into one live channel
MaxFrags == 2
\* writes the control thread puts on the wire
MaxWire == 1
\* ticks of the monotonic clock (Instant::now)
MaxTime == 1
\* the clamp range 100..=10000 of max_points, scaled: lowest cap
MinPoints == 1
\* the clamp range 100..=10000 of max_points, scaled: width of the range
PointsSpan == 2
\* pushes of the sample-buffer specification
MaxPushes == 5
\* items after the prefix in an input of the parser specification
MaxItems == 5
\* length of the raw log up to which disconnect() is called with no port held
MaxLog == 4
MaxAttempts == 2

MaxPoints == MinPoints + PointsSpan
\* max_points: 1000 of PlotWindow::default, scaled into the clamp range
DefaultPoints == MinPoints + 1

\* Option::None for a handle, a channel or an Instant
None == 0
NoTime == -1

Handles == 1..MaxConn
Channels == 1..4

---------------------------------------------------------------------------
(* Text.                                                                   *)

IsWs(a) == a \in {" ", "\n"}

\* the float literals of the alphabet and their values (in tenths)
Numerals == {"1.0", "2.0", "3.0", "4.0"}
NumVal(a) == CASE a = "1.0" -> 10
               [] a = "2.0" -> 20
               [] a = "3.0" -> 30
               [] OTHER -> 40

Marker == <<"Pace:", " ", "FL:">>

\* str::trim
RECURSIVE TrimStart(_)
TrimStart(s) == IF s # <<>> /\ IsWs(Head(s)) THEN TrimStart(Tail(s)) ELSE s
RECURSIVE TrimEnd(_)
TrimEnd(s) == IF s # <<>> /\ IsWs(s[Len(s)])
              THEN TrimEnd(SubSeq(s, 1, Len(s) - 1)) ELSE s
Trim(s) == TrimEnd(TrimStart(s))

\* str::starts_with
StartsWith(s, p) == Len(s) >= Len(p) /\ SubSeq(s, 1, Len(p)) = p

\* str::split_whitespace: the maximal runs of non-whitespace atoms
RECURSIVE SplitFrom(_, _, _)
SplitFrom(s, cur, acc) ==
    IF s = <<>> THEN (IF cur = <<>> THEN acc ELSE Append(acc, cur))
    ELSE IF IsWs(Head(s))
         THEN SplitFrom(Tail(s), <<>>, IF cur = <<>> THEN acc ELSE Append(acc, cur))
         ELSE SplitFrom(Tail(s), Append(cur, Head(s)), acc)
SplitWhitespace(s) == SplitFrom(s, <<>>, <<>>)

\* str::parse::<f64> succeeds
ParsesF64(tok) == Len(tok) = 1 /\ tok[1] \in Numerals

\* the values of the tokens that parse, in order (main.rs 272-281)
RECURSIVE CollectValues(_)
CollectValues(toks) ==
    IF toks = <<>> THEN <<>>
    ELSE IF ParsesF64(Head(toks))
         THEN <<NumVal(Head(toks)[1])>> \o CollectValues(Tail(toks))
         ELSE CollectValues(Tail(toks))

LineValues(line) ==
    LET l == Trim(line)
    IN  IF StartsWith(l, Marker) THEN CollectValues(SplitWhitespace(l)) ELSE <<>>

\* String::from_utf8_lossy: an invalid byte becomes U+FFFD
Utf8Lossy(chunk) ==
    [k \in DOMAIN chunk |-> IF chunk[k] = "<FF>" THEN "<U+FFFD>" ELSE chunk[k]]

\* the UTF-8 bytes of an atom
AtomBytes(a) ==
    CASE a = " "        -> <<32>>
      [] a = "\n"       -> <<10>>
      [] a = "x"        -> <<120>>
      [] a = "1.0"      -> <<49, 46, 48>>
      [] a = "2.0"      -> <<50, 46, 48>>
      [] a = "3.0"      -> <<51, 46, 48>>
      [] a = "4.0"      -> <<52, 46, 48>>
      [] a = "D"        -> <<68>>
      [] a = "E"        -> <<69>>
      [] a = "A"        -> <<65>>
      [] a = "a"        -> <<97>>
      [] a = "G"        -> <<71>>
      [] a = "F"        -> <<70>>
      [] a = "+"        -> <<43>>
      [] a = "é"        -> <<195, 169>>
      [] a = "0"        -> <<48>>
      [] a = "7"        -> <<55>>
      [] a = "Pace:"    -> <<80, 97, 99, 101, 58>>
      [] a = "FL:"      -> <<70, 76, 58>>
      [] a = "FR:"      -> <<70, 82, 58>>
      [] a = "RL:"      -> <<82, 76, 58>>
      [] a = "RR:"      -> <<82, 82, 58>>
      [] a = "Error:"   -> <<69, 114, 114, 111, 114, 58>>
      [] a = "EIO"      -> <<69, 73, 79>>
      [] a = "<U+FFFD>" -> <<239, 191, 189>>
      [] OTHER          -> <<63>>

RECURSIVE StrBytes(_)
StrBytes(s) == IF s = <<>> THEN <<>> ELSE AtomBytes(Head(s)) \o StrBytes(Tail(s))

HexDigits == <<"0", "1", "2", "3", "4", "5", "6", "7", "8", "9",
               "A", "B", "C", "D", "E", "F">>

\* format!("{:02X} ", b) for every byte, concatenated
RECURSIVE HexStr(_)
HexStr(bytes) ==
    IF bytes = <<>> THEN <<>>
    ELSE <<HexDigits[(Head(bytes) \div 16) + 1], HexDigits[(Head(bytes) % 16) + 1], " ">>
         \o HexStr(Tail(bytes))

---------------------------------------------------------------------------
(* PlotData and PlotWindow.                                                *)

EmptyPlotData == [values |-> <<>>, times |-> <<>>, start_time |-> NoTime]

\* a slip: the newest point is removed (pop) instead of the oldest (remove(0))
PushDropNewest(pd, value, max_points, t) ==
    LET st == IF pd.start_time = NoTime THEN t ELSE pd.start_time
        ts == Append(pd.times, t - st)
        vs == Append(pd.values, value)
    IN  IF Len(vs) > max_points
        THEN [values |-> SubSeq(vs, 1, Len(vs) - 1), times |-> SubSeq(ts, 1, Len(ts) - 1),
              start_time |-> st]
        ELSE [values |-> vs, times |-> ts, start_time |-> st]

\* PlotData::push at clock reading t
Push(pd, value, max_points, t) ==
    LET st == IF pd.start_time = NoTime THEN t ELSE pd.start_time
        ts == Append(pd.times, t - st)
        vs == Append(pd.values, value)
    IN  IF Len(vs) > max_points
        THEN [values |-> Tail(vs), times |-> Tail(ts), start_time |-> st]
        ELSE [values |-> vs, times |-> ts, start_time |-> st]

\* a slip: values.len() >= 4 at line 285, the first four values are pushed
ParseDataAtLeastFour(pw, line, t) ==
    IF ~pw.is_open \/ pw.is_paused THEN pw
    ELSE LET values == LineValues(line)
         IN  IF Len(values) >= 4
             THEN [pw EXCEPT !.plot_data =
                      [i \in Channels |-> Push(pw.plot_data[i], values[i], pw.max_points, t)]]
             ELSE pw

\* a slip: the test of lines 266-268 left out
ParseDataUnguarded(pw, line, t) ==
    LET values == LineValues(line)
    IN  IF Len(values) = 4
        THEN [pw EXCEPT !.plot_data =
                 [i \in Channels |-> Push(pw.plot_data[i], values[i], pw.max_points, t)]]
        ELSE pw

\* SerialMonitorApp::parse_data
ParseData(pw, line, t) ==
    IF ~pw.is_open \/ pw.is_paused THEN pw
    ELSE LET values == LineValues(line)
         IN  IF Len(values) = 4
             THEN [pw EXCEPT !.plot_data =
                      [i \in Channels |-> Push(pw.plot_data[i], values[i], pw.max_points, t)]]
             ELSE pw

\* PlotWindow::default
DefaultPlotWindow ==
    [is_open |-> FALSE, is_paused |-> FALSE, max_points |-> DefaultPoints,
     plot_data |-> [i \in Channels |-> EmptyPlotData]]

---------------------------------------------------------------------------
(* Hex input of send_data (main.rs 235-244).                               *)

\* char::to_digit(16); -1 when the character is no hexadecimal digit
HexVal(c) ==
    CASE c = "0" -> 0 [] c = "1" -> 1 [] c = "2" -> 2 [] c = "3" -> 3
      [] c = "4" -> 4 [] c = "5" -> 5 [] c = "6" -> 6 [] c = "7" -> 7
      [] c = "8" -> 8 [] c = "9" -> 9
      [] c = "A" -> 10 [] c = "a" -> 10 [] c = "B" -> 11 [] c = "C" -> 12
      [] c = "D" -> 13 [] c = "E" -> 14 [] c = "F" -> 15 [] OTHER -> -1

\* the UTF-8 length of a character of the send field
CharWidth(c) == IF c = "é" THEN 2 ELSE 1

\* u8::from_str_radix(&hex_str[i..i + 2], 16) of two ASCII characters: two
\* digits, or (as from_str_radix allows a sign) "+" and one digit
PairOk(a, b) == (HexVal(a) >= 0 \/ a = "+") /\ HexVal(b) >= 0
PairVal(a, b) == IF a = "+" THEN HexVal(b) ELSE HexVal(a) * 16 + HexVal(b)

\* String::replace(" ", "")
RECURSIVE StripSpaces(_)
StripSpaces(s) ==
    IF s = <<>> THEN <<>>
    ELSE IF Head(s) = " " THEN StripSpaces(Tail(s))
         ELSE <<Head(s)>> \o StripSpaces(Tail(s))

\* the loop over (0..hex_str.len()).step_by(2): i counts bytes, and the slice
\* &hex_str[i..i + 2] of a two-byte character is that character, which is
\* no number
RECURSIVE HexPairs(_)
HexPairs(h) ==
    IF h = <<>> THEN <<>>
    ELSE IF CharWidth(h[1]) = 2 THEN HexPairs(Tail(h))
    ELSE IF Len(h) < 2 THEN <<>>
    ELSE (IF PairOk(h[1], h[2]) THEN <<PairVal(h[1], h[2])>> ELSE <<>>)
         \o HexPairs(SubSeq(h, 3, Len(h)))

\* &hex_str[i..i + 2] panics when i + 2 is inside a character
RECURSIVE HexPanics(_)
HexPanics(h) ==
    IF h = <<>> THEN FALSE
    ELSE IF CharWidth(h[1]) = 2 THEN HexPanics(Tail(h))
    ELSE IF Len(h) < 2 THEN FALSE
    ELSE CharWidth(h[2]) = 2 \/ HexPanics(SubSeq(h, 3, Len(h)))

HexDecode(text) == HexPairs(StripSpaces(text))

\* what the user can type into the send field (one atom per character)
SendTexts == { <<"D", "E", " ", "A", "7">>, <<"x", "G", "0">> }

\* the ports the registry lists
PortNames == {"ttyUSB0"}

\* what one read of the device can return
LineA == <<"Pace:", " ", "FL:", " ", "1.0", " ", "FR:", " ", "2.0", " ",
           "RL:", " ", "3.0", " ", "RR:", " ", "4.0", "\n">>
LineB == <<"x", "<FF>", "\n">>
Chunks == {LineA, LineB}

\* bytes the device sent before connect() was called
StaleChunk == <<"old", "\n">>

ErrorMarker == <<"Error:", " ", "EIO", "\n">>

---------------------------------------------------------------------------
VARIABLES
    selected_port,   \* SerialMonitorApp.selected_port ("" when none is selected)
    received_data,   \* SerialMonitorApp.received_data, the raw log
    port,            \* SerialMonitorApp.port: None or the handle held
    rx,              \* SerialMonitorApp.rx: None or the channel held
    send_data,       \* SerialMonitorApp.send_data, the text of the send field
    is_hex_input,
    is_hex_display,
    plot_window,     \* SerialMonitorApp.plot_window
    ctl,             \* where the control thread stands
    newport,         \* connect(): the handle opened, not yet stored in self.port
    out,             \* send_data(): the bytes to write
    nopen,           \* handles opened so far; handle h has reader thread h
    rpc,             \* where each reader thread stands
    lock,            \* who holds the mutex of each handle
    dtr,             \* the DTR line of each handle
    rts,             \* the RTS line of each handle
    chan,            \* the mpsc queue of each handle's channel
    wire,            \* what was written to the device: <<handle, bytes>> pairs
    now,             \* the monotonic clock
    sent,            \* history: the fragments put into the channel now alive
    taken,           \* history: the fragments update() took from that channel
    pushed,          \* history: the values given to PlotData::push called directly
    attempts,        \* history: the lock holds the reader of self.port ended
                     \* while the control thread waited for that lock
    stale,           \* per handle: the OS input buffer holds bytes that arrived
                     \* before connect()
    ev               \* the step just taken: [op, h]

appVars == <<selected_port, received_data, port, rx, send_data,
             is_hex_input, is_hex_display, plot_window>>
ctlVars == <<ctl, newport, out>>
hwVars == <<nopen, rpc, lock, dtr, rts, chan, wire>>
vars == <<selected_port, received_data, port, rx, send_data, is_hex_input,
          is_hex_display, plot_window, ctl, newport, out, nopen, rpc, lock,
          dtr, rts, chan, wire, now, sent, taken, pushed, attempts, stale, ev>>

Ev(op, h) == [op |-> op, h |-> h]

\* SerialMonitorApp::default but for plot_window; no handle opened, no
\* thread spawned
InitApp ==
    /\ selected_port = ""
    /\ received_data = <<>>
    /\ port = None
    /\ rx = None
    /\ send_data = <<>>
    /\ is_hex_input = FALSE
    /\ is_hex_display = FALSE
    /\ ctl = "idle"
    /\ newport = None
    /\ out = <<>>
    /\ nopen = 0
    /\ rpc = [h \in Handles |-> "none"]
    /\ lock = [h \in Handles |-> "free"]
    /\ dtr = [h \in Handles |-> FALSE]
    /\ rts = [h \in Handles |-> FALSE]
    /\ chan = [h \in Handles |-> <<>>]
    /\ wire = <<>>
    /\ now = 0
    /\ sent = <<>>
    /\ taken = <<>>
    /\ pushed = <<>>
    /\ attempts = 0
    /\ stale = [h \in Handles |-> FALSE]
    /\ ev = Ev("init", None)

Init == InitApp /\ plot_window = DefaultPlotWindow

---------------------------------------------------------------------------
(* Reference counts.  The Arc of handle h is held by self.port, by the     *)
(* local of a connect() in progress and by the closure of reader h; the    *)
(* Receiver of channel h by self.rx or by the local of that connect().     *)

\* the loop of lines 188-208 has no break and no return: a spawned reader never ends
ReaderAlive(h) == rpc[h] # "none"
ManagerHolds(h) == port = h \/ (ctl = "connect_lock" /\ newport = h)
HandleOpen(h) == ManagerHolds(h) \/ ReaderAlive(h)
RxAlive(h) == rx = h \/ (ctl = "connect_lock" /\ newport = h)

---------------------------------------------------------------------------
(* The reader thread of handle h (main.rs 186-209).                        *)

\* the control thread is blocked in port.lock() of send_data() or of
\* reset_device(), on the mutex of handle h
Waiting(h) == ctl \in {"send_lock", "reset_lock"} /\ port = h

\* reader h drops its guard: one more lock hold ended ahead of a waiting
\* control thread (counted up to MaxAttempts)
GuardDropped(h) ==
    IF Waiting(h)
    THEN attempts < MaxAttempts /\ attempts' = attempts + 1
    ELSE attempts' = attempts

\* tx.send(s): queued when the Receiver exists, an ignored error otherwise
TxSend(h, s) ==
    IF RxAlive(h)
    THEN /\ chan' = [chan EXCEPT ![h] = Append(@, s)]
         /\ sent' = Append(sent, s)
    ELSE UNCHANGED <<chan, sent>>

CanForward(h) == RxAlive(h) => Len(sent) < MaxFrags

\* line 189: port_clone.lock()
ReaderLock(h) ==
    /\ rpc[h] = "lock"
    /\ lock[h] = "free"
    /\ lock' = [lock EXCEPT ![h] = "reader"]
    /\ rpc' = [rpc EXCEPT ![h] = "read"]
    /\ ev' = Ev("lock", h)
    /\ UNCHANGED <<pushed, attempts, stale>>
    /\ UNCHANGED <<appVars, ctlVars, nopen, dtr, rts, chan, wire, now, sent, taken>>

\* lines 190-195: Ok(t), t > 0
ReadData(h, chunk) ==
    /\ ~stale[h]
    /\ rpc[h] = "read"
    /\ CanForward(h)
    /\ TxSend(h, Utf8Lossy(chunk))
    /\ lock' = [lock EXCEPT ![h] = "free"]
    /\ rpc' = [rpc EXCEPT ![h] = "sleep"]
    /\ ev' = Ev("read_data", h)
    /\ GuardDropped(h)
    /\ UNCHANGED <<pushed, stale>>
    /\ UNCHANGED <<appVars, ctlVars, nopen, dtr, rts, wire, now, taken>>

\* lines 190-195 when the OS buffer holds bytes from before connect(): the
\* read returns them
ReadStale(h) ==
    /\ ctl # "panicked"
    /\ rpc[h] = "read"
    /\ stale[h]
    /\ CanForward(h)
    /\ TxSend(h, Utf8Lossy(StaleChunk))
    /\ stale' = [stale EXCEPT ![h] = FALSE]
    /\ lock' = [lock EXCEPT ![h] = "free"]
    /\ rpc' = [rpc EXCEPT ![h] = "sleep"]
    /\ ev' = Ev("read_stale", h)
    /\ GuardDropped(h)
    /\ UNCHANGED pushed
    /\ UNCHANGED <<appVars, ctlVars, nopen, dtr, rts, wire, now, taken>>

\* lines 191-196: Ok(0)
ReadZero(h) ==
    /\ ~stale[h]
    /\ rpc[h] = "read"
    /\ lock' = [lock EXCEPT ![h] = "free"]
    /\ rpc' = [rpc EXCEPT ![h] = "sleep"]
    /\ ev' = Ev("read_zero", h)
    /\ GuardDropped(h)
    /\ UNCHANGED <<pushed, stale>>
    /\ UNCHANGED <<appVars, ctlVars, nopen, dtr, rts, chan, wire, now, sent, taken>>

\* a slip: no TimedOut arm, so a timeout is handled by the arm of lines 200-204
ReadTimedOutAsError(h) ==
    /\ ~stale[h]
    /\ rpc[h] = "read"
    /\ CanForward(h)
    /\ TxSend(h, ErrorMarker)
    /\ rpc' = [rpc EXCEPT ![h] = "errsleep"]
    /\ ev' = Ev("read_timeout", h)
    /\ UNCHANGED <<pushed, attempts, stale>>
    /\ UNCHANGED <<appVars, ctlVars, nopen, lock, dtr, rts, wire, now, taken>>

\* lines 197-199: Err(TimedOut) => continue
ReadTimedOut(h) ==
    /\ ~stale[h]
    /\ rpc[h] = "read"
    /\ lock' = [lock EXCEPT ![h] = "free"]
    /\ rpc' = [rpc EXCEPT ![h] = "lock"]
    /\ ev' = Ev("read_timeout", h)
    /\ GuardDropped(h)
    /\ UNCHANGED <<pushed, stale>>
    /\ UNCHANGED <<appVars, ctlVars, nopen, dtr, rts, chan, wire, now, sent, taken>>

\* lines 200-202: any other Err(e): send the marker, sleep with the lock held
ReadError(h) ==
    /\ rpc[h] = "read"
    /\ CanForward(h)
    /\ TxSend(h, ErrorMarker)
    /\ rpc' = [rpc EXCEPT ![h] = "errsleep"]
    /\ ev' = Ev("read_error", h)
    /\ UNCHANGED <<pushed, attempts, stale>>
    /\ UNCHANGED <<appVars, ctlVars, nopen, lock, dtr, rts, wire, now, taken>>

\* a slip: line 203 left out, the guard is dropped with the buffers as they are
ErrorNoClear(h) ==
    /\ rpc[h] = "errsleep"
    /\ lock' = [lock EXCEPT ![h] = "free"]
    /\ rpc' = [rpc EXCEPT ![h] = "sleep"]
    /\ ev' = Ev("error_clear", h)
    /\ GuardDropped(h)
    /\ UNCHANGED <<pushed, stale>>
    /\ UNCHANGED <<appVars, ctlVars, nopen, dtr, rts, chan, wire, now, sent, taken>>

\* lines 203-205: port.clear(All), the guard is dropped
ErrorClear(h) ==
    /\ rpc[h] = "errsleep"
    /\ lock' = [lock EXCEPT ![h] = "free"]
    /\ rpc' = [rpc EXCEPT ![h] = "sleep"]
    /\ ev' = Ev("error_clear", h)
    /\ GuardDropped(h)
    /\ stale' = [stale EXCEPT ![h] = FALSE]
    /\ UNCHANGED pushed
    /\ UNCHANGED <<appVars, ctlVars, nopen, dtr, rts, chan, wire, now, sent, taken>>

\* line 207: thread::sleep(10ms) is over, back to the top of the loop
ReaderWake(h) ==
    /\ rpc[h] = "sleep"
    /\ rpc' = [rpc EXCEPT ![h] = "lock"]
    /\ ev' = Ev("wake", h)
    /\ UNCHANGED <<pushed, attempts, stale>>
    /\ UNCHANGED <<appVars, ctlVars, nopen, lock, dtr, rts, chan, wire, now, sent, taken>>

\* the reader of a device that sends nothing
QuietReader(h) ==
    /\ ctl # "panicked"
    /\ \/ ReaderLock(h)
       \/ ReadZero(h)
       \/ ReadTimedOut(h)
       \/ ReaderWake(h)

\* a panic of the control thread ends the process and every reader with it
Reader(h) ==
    /\ ctl # "panicked"
    /\ \/ ReaderLock(h)
       \/ \E c \in Chunks : ReadData(h, c)
       \/ ReadZero(h)
       \/ ReadTimedOut(h)
       \/ ReadError(h)
       \/ ErrorClear(h)
       \/ ReaderWake(h)

---------------------------------------------------------------------------
(* The control thread: one frame of eframe::App::update.  Every frame      *)
(* first takes at most one fragment from the channel (lines 48-61) and     *)
(* then handles at most one input event.                                   *)

HasFragment == rx # None /\ chan[rx] # <<>>

\* lines 50-58: what one received fragment appends to the raw log
Rendered(data) ==
    (IF is_hex_display THEN HexStr(StrBytes(data)) ELSE data) \o <<"\n">>

\* a slip: the newest queued fragment is handed over
ReceivedNewest == chan[rx][Len(chan[rx])]

\* rx.try_recv(): the oldest queued fragment
Received == Head(chan[rx])
RestOf(q) == Tail(q)

\* the state after lines 48-61
DrainLog == IF HasFragment THEN received_data \o Rendered(Received) ELSE received_data
DrainChan == IF HasFragment THEN [chan EXCEPT ![rx] = RestOf(@)] ELSE chan
DrainPlot == IF HasFragment THEN ParseData(plot_window, Received, now) ELSE plot_window
DrainTaken == IF HasFragment THEN Append(taken, Received) ELSE taken

\* lines 48-61 as the first part of a frame whose event leaves the log,
\* the channel and the plot window alone
Drain ==
    /\ received_data' = DrainLog
    /\ chan' = DrainChan
    /\ plot_window' = DrainPlot
    /\ taken' = DrainTaken

\* a frame without an input event
FrameIdle ==
    /\ ctl = "idle"
    /\ HasFragment
    /\ Drain
    /\ ev' = Ev("frame", None)
    /\ UNCHANGED <<pushed, attempts, stale>>
    /\ UNCHANGED <<selected_port, port, rx, send_data, is_hex_input, is_hex_display,
                   ctlVars, nopen, rpc, lock, dtr, rts, wire, now, sent>>

\* lines 67-74: a port is picked in the combo box
SelectPort(p) ==
    /\ ctl = "idle"
    /\ selected_port' = p
    /\ Drain
    /\ ev' = Ev("select", None)
    /\ UNCHANGED <<pushed, attempts, stale>>
    /\ UNCHANGED <<port, rx, send_data, is_hex_input, is_hex_display,
                   ctlVars, nopen, rpc, lock, dtr, rts, wire, now, sent>>

\* line 113
ToggleHexInput ==
    /\ ctl = "idle"
    /\ is_hex_input' = ~is_hex_input
    /\ Drain
    /\ ev' = Ev("hex_input", None)
    /\ UNCHANGED <<pushed, attempts, stale>>
    /\ UNCHANGED <<selected_port, port, rx, send_data, is_hex_display,
                   ctlVars, nopen, rpc, lock, dtr, rts, wire, now, sent>>

\* line 114
ToggleHexDisplay ==
    /\ ctl = "idle"
    /\ is_hex_display' = ~is_hex_display
    /\ Drain
    /\ ev' = Ev("hex_display", None)
    /\ UNCHANGED <<pushed, attempts, stale>>
    /\ UNCHANGED <<selected_port, port, rx, send_data, is_hex_input,
                   ctlVars, nopen, rpc, lock, dtr, rts, wire, now, sent>>

\* line 118: the send field is edited
EditSendText(t) ==
    /\ ctl = "idle"
    /\ send_data' = t
    /\ Drain
    /\ ev' = Ev("edit", None)
    /\ UNCHANGED <<pushed, attempts, stale>>
    /\ UNCHANGED <<selected_port, port, rx, is_hex_input, is_hex_display,
                   ctlVars, nopen, rpc, lock, dtr, rts, wire, now, sent>>

\* lines 146-148: the Clean button
Clean ==
    /\ ctl = "idle"
    /\ received_data' = <<>>
    /\ chan' = DrainChan
    /\ plot_window' = DrainPlot
    /\ taken' = DrainTaken
    /\ ev' = Ev("clean", None)
    /\ UNCHANGED <<pushed, attempts, stale>>
    /\ UNCHANGED <<selected_port, port, rx, send_data, is_hex_input, is_hex_display,
                   ctlVars, nopen, rpc, lock, dtr, rts, wire, now, sent>>

---------------------------------------------------------------------------
(* connect (main.rs 163-223), called by the Start button (lines 101-103).  *)

\* a slip: no return at line 166, so connect() goes on to open and spawn
ConnectNoPortNoReturn ==
    /\ ctl = "idle"
    /\ port = None
    /\ selected_port = ""
    /\ nopen < MaxConn
    /\ LET h == nopen + 1
       IN  /\ nopen' = h
           /\ newport' = h
           /\ dtr' = [dtr EXCEPT ![h] = FALSE]
           /\ rts' = [rts EXCEPT ![h] = FALSE]
           /\ rpc' = [rpc EXCEPT ![h] = "lock"]
    /\ ctl' = "connect_lock"
    /\ received_data' = <<"Select one port.">>
    /\ chan' = DrainChan
    /\ plot_window' = DrainPlot
    /\ taken' = DrainTaken
    /\ ev' = Ev("connect_noport", None)
    /\ UNCHANGED <<pushed, attempts, stale>>
    /\ UNCHANGED <<selected_port, port, rx, send_data, is_hex_input, is_hex_display,
                   out, lock, wire, now, sent>>

\* lines 164-167: no port selected
ConnectNoPort ==
    /\ ctl = "idle"
    /\ port = None
    /\ selected_port = ""
    /\ received_data' = <<"Select one port.">>
    /\ chan' = DrainChan
    /\ plot_window' = DrainPlot
    /\ taken' = DrainTaken
    /\ ev' = Ev("connect_noport", None)
    /\ UNCHANGED <<pushed, attempts, stale>>
    /\ UNCHANGED <<selected_port, port, rx, send_data, is_hex_input, is_hex_display,
                   ctlVars, nopen, rpc, lock, dtr, rts, wire, now, sent>>

\* lines 219-221: open() returned Err(e)
ConnectOpenFailed ==
    /\ ctl = "idle"
    /\ port = None
    /\ selected_port # ""
    /\ received_data' = <<"Failed:", " ", "ENOENT", "\n">>
    /\ chan' = DrainChan
    /\ plot_window' = DrainPlot
    /\ taken' = DrainTaken
    /\ ev' = Ev("connect_failed", None)
    /\ UNCHANGED <<pushed, attempts, stale>>
    /\ UNCHANGED <<selected_port, port, rx, send_data, is_hex_input, is_hex_display,
                   ctlVars, nopen, rpc, lock, dtr, rts, wire, now, sent>>

\* lines 177-209: open() returned Ok: DTR and RTS low, the channel is made,
\* the reader is spawned; the control thread goes on to port.lock() of line 211
ConnectOpen(buffered) ==
    /\ ctl = "idle"
    /\ port = None
    /\ selected_port # ""
    /\ nopen < MaxConn
    /\ LET h == nopen + 1
       IN  /\ nopen' = h
           /\ newport' = h
           /\ dtr' = [dtr EXCEPT ![h] = FALSE]
           /\ rts' = [rts EXCEPT ![h] = FALSE]
           /\ rpc' = [rpc EXCEPT ![h] = "lock"]
           /\ stale' = [stale EXCEPT ![h] = buffered]
           /\ ev' = Ev("connect_opened", h)
           /\ UNCHANGED <<pushed, attempts>>
    /\ ctl' = "connect_lock"
    /\ Drain
    /\ UNCHANGED <<selected_port, port, rx, send_data, is_hex_input, is_hex_display,
                   out, lock, wire, now, sent>>

\* connect() on a port whose OS input buffer is empty
ConnectOpened == ConnectOpen(FALSE)

\* connect() on a port whose OS input buffer holds bytes already
ConnectOpenedStale == ConnectOpen(TRUE)

\* lines 211-217: the lock is taken, the buffers are cleared, the handle and
\* the receiver are stored
ConnectFinish ==
    /\ ctl = "connect_lock"
    /\ lock[newport] = "free"
    /\ port' = newport
    /\ rx' = newport
    /\ received_data' = <<"Connected", "\n">>
    /\ ctl' = "idle"
    /\ newport' = None
    /\ ev' = Ev("connected", newport)
    /\ stale' = [stale EXCEPT ![newport] = FALSE]
    /\ UNCHANGED <<pushed, attempts>>
    /\ UNCHANGED <<selected_port, send_data, is_hex_input, is_hex_display, plot_window,
                   out, nopen, rpc, lock, dtr, rts, chan, wire, now, sent, taken>>

---------------------------------------------------------------------------
(* disconnect (main.rs 225-229).                                           *)

\* the body of disconnect() after the frame's drain: self.port and self.rx
\* are dropped (the queued fragments go with the Receiver, and the history
\* of the channel with them), the log grows
DisconnectBody ==
    /\ port' = None
    /\ rx' = None
    /\ received_data' = DrainLog \o <<"Unconnected", "\n">>
    /\ chan' = IF rx # None THEN [DrainChan EXCEPT ![rx] = <<>>] ELSE DrainChan
    /\ plot_window' = DrainPlot
    /\ sent' = <<>>
    /\ taken' = <<>>

\* a frame whose event calls disconnect(); calls that find no port held only
\* lengthen the log, and are counted out at MaxLog atoms
Disconnect ==
    /\ ctl = "idle"
    /\ port = None => Len(received_data) < MaxLog
    /\ DisconnectBody
    /\ ev' = Ev("disconnect", None)
    /\ UNCHANGED <<pushed, attempts, stale>>
    /\ UNCHANGED <<selected_port, send_data, is_hex_input, is_hex_display,
                   ctlVars, nopen, rpc, lock, dtr, rts, wire, now>>

\* lines 101-106: the button reads Stop, and calls disconnect(), exactly when
\* self.port is Some
ClickStop == port # None /\ Disconnect

---------------------------------------------------------------------------
(* send_data (main.rs 231-263), called by the Send button when a port is   *)
(* held (line 119) and by Enter in the send field in any state (line 122). *)

Payload == IF is_hex_input THEN HexDecode(send_data) ELSE StrBytes(send_data)

\* line 232 fails: nothing happens, the send field is kept
SendNoPort ==
    /\ ctl = "idle"
    /\ port = None
    /\ Drain
    /\ ev' = Ev("send_noport", None)
    /\ UNCHANGED <<pushed, attempts, stale>>
    /\ UNCHANGED <<selected_port, port, rx, send_data, is_hex_input, is_hex_display,
                   ctlVars, nopen, rpc, lock, dtr, rts, wire, now, sent>>

\* line 239 panics: the slice of the hex text ends inside a character
PayloadPanics == is_hex_input /\ HexPanics(StripSpaces(send_data))

\* lines 232-239: the panic unwinds update() and ends the program
SendPanic ==
    /\ ctl = "idle"
    /\ port # None
    /\ PayloadPanics
    /\ ctl' = "panicked"
    /\ Drain
    /\ ev' = Ev("send_panic", port)
    /\ UNCHANGED <<pushed, attempts, stale>>
    /\ UNCHANGED <<selected_port, port, rx, send_data, is_hex_input, is_hex_display,
                   newport, out, nopen, rpc, lock, dtr, rts, wire, now, sent>>

\* lines 232-248: the payload is built, the control thread goes on to
\* port.lock() of line 249
SendStart ==
    /\ ctl = "idle"
    /\ port # None
    /\ ~PayloadPanics
    /\ Len(wire) < MaxWire
    /\ out' = Payload
    /\ ctl' = "send_lock"
    /\ Drain
    /\ ev' = Ev("send_start", port)
    /\ UNCHANGED <<pushed, attempts, stale>>
    /\ UNCHANGED <<selected_port, port, rx, send_data, is_hex_input, is_hex_display,
                   newport, nopen, rpc, lock, dtr, rts, wire, now, sent>>

\* the "Send:" record of lines 251-258
SendRecord ==
    <<"Send:", " ">> \o (IF is_hex_display THEN HexStr(out) ELSE send_data) \o <<"\n">>

\* lines 249-261, port.write(&data) is Ok
SendWritten ==
    /\ ctl = "send_lock"
    /\ lock[port] = "free"
    /\ wire' = Append(wire, <<port, out>>)
    /\ received_data' = received_data \o SendRecord
    /\ send_data' = <<>>
    /\ ctl' = "idle"
    /\ out' = <<>>
    /\ ev' = Ev("send_ok", port)
    /\ attempts' = 0
    /\ UNCHANGED <<pushed, stale>>
    /\ UNCHANGED <<selected_port, port, rx, is_hex_input, is_hex_display, plot_window,
                   newport, nopen, rpc, lock, dtr, rts, chan, now, sent, taken>>

\* lines 249-261, port.write(&data) is Err: nothing is logged
SendWriteFailed ==
    /\ ctl = "send_lock"
    /\ lock[port] = "free"
    /\ send_data' = <<>>
    /\ ctl' = "idle"
    /\ out' = <<>>
    /\ ev' = Ev("send_err", port)
    /\ attempts' = 0
    /\ UNCHANGED <<pushed, stale>>
    /\ UNCHANGED <<selected_port, received_data, port, rx, is_hex_input, is_hex_display,
                   plot_window, newport, nopen, rpc, lock, dtr, rts, chan, wire, now,
                   sent, taken>>

---------------------------------------------------------------------------
(* reset_device (main.rs 354-365), called by Reset MCU when a port is held *)
(* (line 149).                                                             *)

\* reset_device() called with no port held: line 355 fails, nothing happens
ResetNoPort ==
    /\ ctl = "idle"
    /\ port = None
    /\ Drain
    /\ ev' = Ev("reset_noport", None)
    /\ UNCHANGED <<pushed, attempts, stale>>
    /\ UNCHANGED <<selected_port, port, rx, send_data, is_hex_input, is_hex_display,
                   ctlVars, nopen, rpc, lock, dtr, rts, wire, now, sent>>

\* line 355: the control thread goes on to port.lock() of line 356
ResetStart ==
    /\ ctl = "idle"
    /\ port # None
    /\ ctl' = "reset_lock"
    /\ Drain
    /\ ev' = Ev("reset_start", port)
    /\ UNCHANGED <<pushed, attempts, stale>>
    /\ UNCHANGED <<selected_port, port, rx, send_data, is_hex_input, is_hex_display,
                   newport, out, nopen, rpc, lock, dtr, rts, wire, now, sent>>

\* lines 356-360: lock taken, buffers cleared, DTR high, the first sleep begins
ResetAssert ==
    /\ ctl = "reset_lock"
    /\ lock[port] = "free"
    /\ lock' = [lock EXCEPT ![port] = "ctl"]
    /\ stale' = [stale EXCEPT ![port] = FALSE]
    /\ dtr' = [dtr EXCEPT ![port] = TRUE]
    /\ ctl' = "reset_hold"
    /\ attempts' = 0
    /\ ev' = Ev("reset_assert", port)
    /\ UNCHANGED pushed
    /\ UNCHANGED <<appVars, newport, out, nopen, rpc, rts, chan, wire, now, sent, taken>>

\* a slip: line 361 left out, DTR stays high
ResetDeassertSkipped ==
    /\ ctl = "reset_hold"
    /\ ctl' = "reset_low"
    /\ ev' = Ev("reset_deassert", port)
    /\ UNCHANGED <<pushed, attempts, stale>>
    /\ UNCHANGED <<appVars, newport, out, nopen, rpc, lock, dtr, rts, chan, wire, now,
                   sent, taken>>

\* lines 360-362: the first sleep is over, DTR low, the second sleep begins
ResetDeassert ==
    /\ ctl = "reset_hold"
    /\ dtr' = [dtr EXCEPT ![port] = FALSE]
    /\ ctl' = "reset_low"
    /\ ev' = Ev("reset_deassert", port)
    /\ UNCHANGED <<pushed, attempts, stale>>
    /\ UNCHANGED <<appVars, newport, out, nopen, rpc, lock, rts, chan, wire, now, sent,
                   taken>>

\* lines 362-364: the second sleep is over, the guard is dropped
ResetRelease ==
    /\ ctl = "reset_low"
    /\ lock' = [lock EXCEPT ![port] = "free"]
    /\ ctl' = "idle"
    /\ ev' = Ev("reset_done", port)
    /\ UNCHANGED <<pushed, attempts, stale>>
    /\ UNCHANGED <<appVars, newport, out, nopen, rpc, dtr, rts, chan, wire, now, sent,
                   taken>>

---------------------------------------------------------------------------
(* The plot window (main.rs 143-145, 293-320).                             *)

\* line 144: Open Plot
OpenPlot ==
    /\ ctl = "idle"
    /\ plot_window' = [DrainPlot EXCEPT !.is_open = TRUE]
    /\ received_data' = DrainLog
    /\ chan' = DrainChan
    /\ taken' = DrainTaken
    /\ ev' = Ev("open_plot", None)
    /\ UNCHANGED <<pushed, attempts, stale>>
    /\ UNCHANGED <<selected_port, port, rx, send_data, is_hex_input, is_hex_display,
                   ctlVars, nopen, rpc, lock, dtr, rts, wire, now, sent>>

\* an event of a widget of the plot window, shown only while is_open (line 294)
PlotEvent(pw, op) ==
    /\ ctl = "idle"
    /\ plot_window.is_open
    /\ plot_window' = pw
    /\ received_data' = DrainLog
    /\ chan' = DrainChan
    /\ taken' = DrainTaken
    /\ ev' = Ev(op, None)
    /\ UNCHANGED <<pushed, attempts, stale>>
    /\ UNCHANGED <<selected_port, port, rx, send_data, is_hex_input, is_hex_display,
                   ctlVars, nopen, rpc, lock, dtr, rts, wire, now, sent>>

\* line 299: the window's close button
ClosePlot == PlotEvent([DrainPlot EXCEPT !.is_open = FALSE], "close_plot")

\* lines 307-309: the Max Points drag value, clamped to its range
SetMaxPoints(n) == PlotEvent([DrainPlot EXCEPT !.max_points = n], "max_points")

\* lines 310-312: Pause / Resume
TogglePause == PlotEvent([DrainPlot EXCEPT !.is_paused = ~@], "pause")

\* a slip: line 317 left out, the time origin survives the clearing
CleanPlotKeepsOrigin ==
    PlotEvent([DrainPlot EXCEPT !.plot_data =
                  [i \in Channels |-> [DrainPlot.plot_data[i] EXCEPT !.values = <<>>,
                                                                     !.times = <<>>]]],
              "clean_plot")

\* lines 313-319: Clean Plot
CleanPlot ==
    PlotEvent([DrainPlot EXCEPT !.plot_data = [i \in Channels |-> EmptyPlotData]],
              "clean_plot")

\* the monotonic clock advances
Tick ==
    /\ now < MaxTime
    /\ now' = now + 1
    /\ ev' = Ev("tick", None)
    /\ UNCHANGED <<pushed, attempts, stale>>
    /\ UNCHANGED <<appVars, ctlVars, hwVars, sent, taken>>

\* PlotData::push called on the first sample buffer with the cap in force
PushValues == {10, 20}
PushCall(v) ==
    /\ Len(pushed) < MaxPushes
    /\ plot_window' = [plot_window EXCEPT
                          !.plot_data[1] = Push(@, v, plot_window.max_points, now)]
    /\ pushed' = Append(pushed, v)
    /\ ev' = Ev("push", None)
    /\ UNCHANGED <<attempts, stale>>
    /\ UNCHANGED <<selected_port, received_data, port, rx, send_data, is_hex_input,
                   is_hex_display, ctlVars, hwVars, now, sent, taken>>

---------------------------------------------------------------------------
(* The whole program: every frame event and every reader step.             *)
Next ==
    \/ \E h \in Handles : Reader(h)
    \/ \E h \in Handles : ReadStale(h)
    \/ FrameIdle
    \/ \E p \in PortNames : SelectPort(p)
    \/ ToggleHexInput
    \/ ToggleHexDisplay
    \/ \E t \in SendTexts : EditSendText(t)
    \/ Clean
    \/ ConnectNoPort
    \/ ConnectOpenFailed
    \/ ConnectOpened
    \/ ConnectOpenedStale
    \/ ConnectFinish
    \/ ClickStop
    \/ SendNoPort
    \/ SendPanic
    \/ SendStart
    \/ SendWritten
    \/ SendWriteFailed
    \/ ResetNoPort
    \/ ResetStart
    \/ ResetAssert
    \/ ResetDeassert
    \/ ResetRelease
    \/ OpenPlot
    \/ ClosePlot
    \/ \E n \in MinPoints..MaxPoints : SetMaxPoints(n)
    \/ TogglePause
    \/ CleanPlot
    \/ Tick

Spec == Init /\ [][Next]_vars

---------------------------------------------------------------------------
(* Scenarios.  The whole of Next is too large to enumerate, so each claim  *)
(* is checked in the scenario that holds the operations it is about.  The  *)
(* actions left out of a scenario write only variables its claims do not   *)
(* read: the connection actions never read plot_window or the clock, and   *)
(* the plot actions never read the handles.                                *)

\* the connection life cycle: ports, readers, channels and the raw log
NextLink ==
    \/ \E h \in Handles : Reader(h)
    \/ FrameIdle
    \/ \E p \in PortNames : SelectPort(p)
    \/ ConnectNoPort
    \/ ConnectOpenFailed
    \/ ConnectOpened
    \/ ConnectFinish
    \/ ClickStop

SpecLink == Init /\ [][NextLink]_vars

\* one connection that stays established: the reader, the channel, the
\* frames that drain it, and the raw log in both display modes
NextFifo ==
    \/ \E h \in Handles : Reader(h)
    \/ FrameIdle
    \/ \E p \in PortNames : SelectPort(p)
    \/ ToggleHexDisplay
    \/ Clean
    \/ ConnectOpened
    \/ ConnectFinish

SpecFifo == Init /\ [][NextFifo]_vars

\* the commands of the connection manager issued in any state: as NextLink,
\* with disconnect() called whether or not a port is held
NextApi ==
    \/ \E h \in Handles : Reader(h)
    \/ FrameIdle
    \/ \E p \in PortNames : SelectPort(p)
    \/ ConnectNoPort
    \/ ConnectOpenFailed
    \/ ConnectOpened
    \/ ConnectFinish
    \/ Disconnect

SpecApi == Init /\ [][NextApi]_vars

\* sending and resetting on a device that sends nothing
NextSend ==
    \/ \E h \in Handles : QuietReader(h)
    \/ \E p \in PortNames : SelectPort(p)
    \/ ToggleHexInput
    \/ ToggleHexDisplay
    \/ \E t \in SendTexts : EditSendText(t)
    \/ ConnectOpened
    \/ ConnectFinish
    \/ ClickStop
    \/ SendNoPort
    \/ SendStart
    \/ SendWritten
    \/ SendWriteFailed
    \/ ResetStart
    \/ ResetAssert
    \/ ResetDeassert
    \/ ResetRelease

SpecSend == Init /\ [][NextSend]_vars

\* the reset sequence, on a device that sends nothing
NextReset ==
    \/ \E h \in Handles : QuietReader(h)
    \/ \E p \in PortNames : SelectPort(p)
    \/ ConnectOpened
    \/ ConnectFinish
    \/ ClickStop
    \/ ResetNoPort
    \/ ResetStart
    \/ ResetAssert
    \/ ResetDeassert
    \/ ResetRelease

SpecReset == Init /\ [][NextReset]_vars

\* one connection and the plot window
NextPlot ==
    \/ \E h \in Handles : Reader(h)
    \/ FrameIdle
    \/ \E p \in PortNames : SelectPort(p)
    \/ ConnectOpened
    \/ ConnectFinish
    \/ OpenPlot
    \/ ClosePlot
    \/ \E n \in MinPoints..MaxPoints : SetMaxPoints(n)
    \/ TogglePause
    \/ CleanPlot
    \/ Tick

SpecPlot == Init /\ [][NextPlot]_vars

\* PlotData::push alone: any cap of the range, fixed; any sequence of pushes
InitPush ==
    /\ InitApp
    /\ \E m \in MinPoints..MaxPoints :
          plot_window = [DefaultPlotWindow EXCEPT !.is_open = TRUE, !.max_points = m]

NextPush ==
    \/ \E v \in PushValues : PushCall(v)
    \/ Tick

SpecPush == InitPush /\ [][NextPush]_vars

\* parse_data alone: the plot window is open, a connection is established
\* and one fragment, any text of ParseInputs, is queued for the next frame
Prefixes ==
    { <<>>, Marker, <<" ", "\n">> \o Marker, <<"x", " ">> \o Marker,
      <<"Pace:", " ", " ", "FL:">> }
Items ==
    { <<" ", "1.0">>, <<" ", "2.0">>, <<" ", "3.0">>, <<"\n", "4.0">>, <<"x">> }

RECURSIVE Bodies(_)
Bodies(n) ==
    IF n = 0 THEN { <<>> }
    ELSE LET shorter == Bodies(n - 1)
         IN  shorter \cup { b \o i : b \in shorter, i \in Items }

ParseInputs == { pre \o b \o suf : pre \in Prefixes, b \in Bodies(MaxItems),
                                   suf \in { <<>>, <<"\n">> } }

InitParse ==
    /\ selected_port \in PortNames
    /\ received_data = <<"Connected", "\n">>
    /\ port = 1
    /\ rx = 1
    /\ send_data = <<>>
    /\ is_hex_input = FALSE
    /\ is_hex_display = FALSE
    /\ plot_window = [DefaultPlotWindow EXCEPT !.is_open = TRUE]
    /\ ctl = "idle"
    /\ newport = None
    /\ out = <<>>
    /\ nopen = 1
    /\ rpc = [h \in Handles |-> IF h = 1 THEN "sleep" ELSE "none"]
    /\ lock = [h \in Handles |-> "free"]
    /\ dtr = [h \in Handles |-> FALSE]
    /\ rts = [h \in Handles |-> FALSE]
    /\ \E f \in ParseInputs :
          /\ chan = [h \in Handles |-> IF h = 1 THEN <<f>> ELSE <<>>]
          /\ sent = <<f>>
    /\ wire = <<>>
    /\ now = 0
    /\ taken = <<>>
    /\ pushed = <<>>
    /\ attempts = 0
    /\ stale = [h \in Handles |-> FALSE]
    /\ ev = Ev("read_data", 1)

NextParse == FrameIdle

SpecParse == InitParse /\ [][NextParse]_vars

\* connect() on a port that may hold bytes from before the connection
NextStale ==
    \/ \E h \in Handles : Reader(h)
    \/ \E h \in Handles : ReadStale(h)
    \/ FrameIdle
    \/ \E p \in PortNames : SelectPort(p)
    \/ ConnectOpened
    \/ ConnectOpenedStale
    \/ ConnectFinish

SpecStale == Init /\ [][NextStale]_vars

\* the telemetry stream cut into read chunks at any place: a connection is
\* established, the plot window is open and not paused, and each read returns
\* a whole line, the first or the second part of a line, or two lines
SplitAt == 9
LineHead == SubSeq(LineA, 1, SplitAt)
LineTail == SubSeq(LineA, SplitAt + 1, Len(LineA))
StreamChunks == {LineA, LineHead, LineTail, LineA \o LineA}

InitChunks ==
    /\ selected_port \in PortNames
    /\ received_data = <<"Connected", "\n">>
    /\ port = 1
    /\ rx = 1
    /\ send_data = <<>>
    /\ is_hex_input = FALSE
    /\ is_hex_display = FALSE
    /\ plot_window = [DefaultPlotWindow EXCEPT !.is_open = TRUE]
    /\ ctl = "idle"
    /\ newport = None
    /\ out = <<>>
    /\ nopen = 1
    /\ rpc = [h \in Handles |-> IF h = 1 THEN "lock" ELSE "none"]
    /\ lock = [h \in Handles |-> "free"]
    /\ dtr = [h \in Handles |-> FALSE]
    /\ rts = [h \in Handles |-> FALSE]
    /\ chan = [h \in Handles |-> <<>>]
    /\ wire = <<>>
    /\ now = 0
    /\ sent = <<>>
    /\ taken = <<>>
    /\ pushed = <<>>
    /\ attempts = 0
    /\ stale = [h \in Handles |-> FALSE]
    /\ ev = Ev("connected", 1)

NextChunks ==
    \/ \E h \in Handles : ReaderLock(h)
    \/ \E h \in Handles : \E c \in StreamChunks : ReadData(h, c)
    \/ \E h \in Handles : ReaderWake(h)
    \/ FrameIdle

SpecChunks == InitChunks /\ [][NextChunks]_vars

\* the hex input path alone: a connection is established and the send field
\* holds the hex-display form of some bytes followed by a trailing fragment
MaxBytes == 2
HexBytes == {0, 171, 222}

RECURSIVE ByteSeqs(_)
ByteSeqs(n) ==
    IF n = 0 THEN { <<>> }
    ELSE LET shorter == ByteSeqs(n - 1)
         IN  shorter \cup { Append(b, x) : b \in shorter, x \in HexBytes }

\* one dangling digit or character, or one pair that is not two hex digits
TrailFrags ==
    { <<>>, <<"F">>, <<"G">>, <<"G", "7">>, <<"7", "G">>, <<"+", "A">>,
      <<"é">>, <<"F", "é">> }

InitHex ==
    /\ selected_port \in PortNames
    /\ received_data = <<"Connected", "\n">>
    /\ port = 1
    /\ rx = 1
    /\ \E b \in ByteSeqs(MaxBytes), f \in TrailFrags : send_data = HexStr(b) \o f
    /\ is_hex_input = TRUE
    /\ is_hex_display \in BOOLEAN
    /\ plot_window = DefaultPlotWindow
    /\ ctl = "idle"
    /\ newport = None
    /\ out = <<>>
    /\ nopen = 1
    /\ rpc = [h \in Handles |-> IF h = 1 THEN "sleep" ELSE "none"]
    /\ lock = [h \in Handles |-> "free"]
    /\ dtr = [h \in Handles |-> FALSE]
    /\ rts = [h \in Handles |-> FALSE]
    /\ chan = [h \in Handles |-> <<>>]
    /\ wire = <<>>
    /\ now = 0
    /\ sent = <<>>
    /\ taken = <<>>
    /\ pushed = <<>>
    /\ attempts = 0
    /\ stale = [h \in Handles |-> FALSE]
    /\ ev = Ev("connected", 1)

NextHex ==
    \/ SendPanic
    \/ SendStart
    \/ SendWritten
    \/ SendWriteFailed

SpecHex == InitHex /\ [][NextHex]_vars

---------------------------------------------------------------------------
(* Claims about the connection life cycle, checked under SpecLink (C4:     *)
(* under SpecFifo).                                                        *)

IsPrefix(a, b) == Len(a) <= Len(b) /\ SubSeq(b, 1, Len(a)) = a

\* C1: a reader lives exactly as long as its connection: when connect() has
\* spawned a fresh reader, the reader of every earlier connection has stopped.
C1_ReaderEndsWithConnection ==
    ctl = "connect_lock" => \A h \in Handles : h # newport => ~ReaderAlive(h)

\* C2: at most one connection is live: at most one port handle is open and at
\* most one reader thread holds a reference to a port handle.
C2_AtMostOneLive ==
    /\ Cardinality({h \in Handles : HandleOpen(h)}) <= 1
    /\ Cardinality({h \in Handles : ReaderAlive(h)}) <= 1

\* C3: a read timeout puts nothing into the channel and does not stop the
\* loop: the reader is back at the top of its loop, about to lock and read.
C3_TimeoutSilent ==
    [][ev'.op = "read_timeout" =>
          /\ chan' = chan
          /\ sent' = sent
          /\ rpc'[ev'.h] = "lock"
          /\ lock'[ev'.h] = "free"]_vars

C3_Witness == ev.op = "read_timeout" /\ rx = ev.h

\* C4: while a channel is alive, the fragments forwarded into it are exactly
\* the fragments update() has taken followed by the fragments still queued,
\* in the order they were forwarded; and each fragment taken is appended to
\* the raw log in the frame that takes it (the Clean button pressed in that
\* very frame empties the log after it).
C4_Fifo ==
    /\ [](\A h \in Handles : RxAlive(h) => sent = taken \o chan[h])
    /\ [][Len(taken') = Len(taken) + 1 =>
             /\ taken' = Append(taken, Head(chan[rx]))
             /\ chan'[rx] = Tail(chan[rx])
             /\ \/ ev'.op = "clean"
                \/ IsPrefix(received_data \o Rendered(Head(chan[rx])), received_data')]_vars

C4_Witness ==
    /\ rx # None
    /\ Len(taken) = 2
    /\ taken[1] # taken[2]
    /\ chan[rx] = <<>>
    /\ Len(received_data) > Len(taken[1]) + Len(taken[2])

\* C8: a connect() that fails, for want of a selected port or because open()
\* fails, leaves the manager disconnected: no handle and no channel is held,
\* no handle was opened and no reader was spawned.
C8_FailedConnect ==
    [][ev'.op \in {"connect_noport", "connect_failed"} =>
          /\ port' = None
          /\ rx' = None
          /\ ctl' = "idle"
          /\ \A h \in Handles : ~ManagerHolds(h)' /\ ~RxAlive(h)'
          /\ nopen' = nopen
          /\ rpc' = rpc]_vars

C8_Witness == ev.op = "connect_failed" /\ nopen >= 1 /\ port = None /\ rx = None

---------------------------------------------------------------------------
(* Claims about disconnect() and send_data().                              *)

\* C9: disconnect() called when no port is held is a no-operation: the
\* connection state, the channel, the raw log and the sample buffers are
\* what they were.  (Checked under SpecApi.)
C9_DisconnectIdempotent ==
    [][ev'.op = "disconnect" /\ port = None =>
          UNCHANGED <<port, rx, chan, received_data, plot_window>>]_vars

\* C10: a write error in send_data() is reported to the user (the raw log
\* grows, but not by a "Send:" record) and leaves the connection as it was:
\* the same handle, channel and reader; and send_data() without a port
\* writes nothing to any device.  (Checked under SpecSend.)
C10_WriteErrorReported ==
    [][/\ ev'.op = "send_err" =>
             /\ IsPrefix(received_data, received_data')
             /\ received_data' # received_data
             /\ ~IsPrefix(received_data \o <<"Send:">>, received_data')
             /\ UNCHANGED <<port, rx, chan, rpc, nopen>>
             /\ port' # None
       /\ ev'.op = "send_noport" => wire' = wire]_vars

---------------------------------------------------------------------------
(* Claims about the sample buffers and the parser.                         *)

Min(a, b) == IF a < b THEN a ELSE b

\* C5: with the cap fixed, after the k-th push the buffer holds min(k, cap)
\* points and its values are the last min(k, cap) values pushed, in push
\* order.  (Checked under SpecPush.)
C5_PushKeepsNewest ==
    LET k == Len(pushed)
        n == Min(k, plot_window.max_points)
        b == plot_window.plot_data[1]
    IN  /\ Len(b.values) = n
        /\ Len(b.times) = n
        /\ b.values = SubSeq(pushed, k - n + 1, k)

C5_Witness ==
    /\ Len(pushed) = plot_window.max_points + 2
    /\ pushed[1] # pushed[Len(pushed)]
    /\ pushed[2] # pushed[3]

\* C6: in every state each of the four buffers has as many timestamps as
\* values, and no more than the cap max_points now configured.  (Checked
\* under SpecPlot.)
C6_LengthWithinCap ==
    \A i \in Channels :
        /\ Len(plot_window.plot_data[i].times) = Len(plot_window.plot_data[i].values)
        /\ Len(plot_window.plot_data[i].values) <= plot_window.max_points

\* C7: a text given to the parser (plot open, not paused) changes the
\* buffers only if, trimmed, it begins with the marker and exactly four of
\* its whitespace-delimited tokens are numbers; then each buffer gets one
\* more point, the i-th number going to the i-th channel; in every other
\* case the plot window is left as it was.  (Checked under SpecParse.)
C7_AllOrNothing ==
    [][ev'.op = "frame" /\ HasFragment /\ plot_window.is_open /\ ~plot_window.is_paused =>
          LET f == Head(chan[rx])
              nums == SelectSeq(SplitWhitespace(f), ParsesF64)
          IN  IF StartsWith(Trim(f), Marker) /\ Len(nums) = 4
              THEN \A i \in Channels :
                      /\ plot_window'.plot_data[i].values =
                            Append(plot_window.plot_data[i].values, NumVal(nums[i][1]))
                      /\ Len(plot_window'.plot_data[i].times) =
                            Len(plot_window.plot_data[i].times) + 1
              ELSE plot_window' = plot_window]_vars

C7_Witness ==
    /\ ev.op = "frame"
    /\ \A i \in Channels : plot_window.plot_data[i].values = <<10 * i>>

---------------------------------------------------------------------------
(* Claims about the port lock, checked under SpecLink.                     *)

\* C13: the reader holds the port lock only while it attempts a read: in no
\* state is a reader in one of its sleeps (the 100 ms pause after an error,
\* the 10 ms yield between iterations) with the lock of its port held.
C13_NoSleepUnderLock ==
    \A h \in Handles : rpc[h] \in {"errsleep", "sleep"} => lock[h] # "reader"

\* C14: a send or a reset issued while connected gets the port lock after
\* the reader has ended at most one lock hold (one read attempt): the reader
\* does not take the lock again and again ahead of the waiting control
\* thread.  (Checked under SpecSend.)
C14_AtMostOneAttempt == attempts <= 1

\* C15: a successful connect() clears the OS buffers before the first read
\* attempt of the reader: no read finds bytes buffered before the
\* connection, and no such bytes are forwarded or logged.  (Checked under
\* SpecStale.)
C15_StaleNeverForwarded ==
    /\ \A h \in Handles : rpc[h] = "read" => ~stale[h]
    /\ \A i \in 1..Len(sent) : sent[i] # StaleChunk
    /\ \A i \in 1..Len(received_data) : received_data[i] # "old"

\* C16: a read error other than a timeout is recovered inside the loop: the
\* reader hands exactly one error marker to the channel, then pauses, and
\* leaves the pause only by clearing the port's buffers, before it can lock
\* and read again; a reader once spawned never ends, whatever the number of
\* errors.  (Checked under SpecStale.)
C16_ErrorRecovered ==
    [][\A h \in Handles :
          /\ ev'.op = "read_error" /\ ev'.h = h =>
                /\ chan'[h] = Append(chan[h], ErrorMarker)
                /\ rpc'[h] = "errsleep"
          /\ rpc[h] = "errsleep" /\ rpc'[h] # "errsleep" =>
                /\ ev' = Ev("error_clear", h)
                /\ ~stale'[h]
                /\ rpc'[h] = "sleep"
          /\ rpc'[h] = "read" /\ rpc[h] # "read" => rpc[h] = "lock"
          /\ ReaderAlive(h) => ReaderAlive(h)']_vars

\* the reader of the connection reads again after two errors, each followed
\* by its clear
C16_Witness ==
    /\ sent = <<ErrorMarker, ErrorMarker>>
    /\ port # None
    /\ rpc[port] = "read"
    /\ ~stale[port]

---------------------------------------------------------------------------
(* Claims about the raw log, checked under SpecLink.                       *)

\* C18: the raw log is append-only: every step but the Clean command leaves
\* the log it found as a prefix of the log it leaves.
C18_LogAppendOnly ==
    [][ev'.op # "clean" => IsPrefix(received_data, received_data')]_vars

---------------------------------------------------------------------------
(* Claims about the control lines, checked under SpecReset.                *)

\* reset_device() is past its port.lock() on handle h
ResetInProgress(h) == ctl \in {"reset_hold", "reset_low"} /\ port = h

\* in every state: DTR of a handle is high only during the first hold of a
\* reset of that handle, RTS never, and a reset in progress holds the lock
C19_LinesLow ==
    \A h \in Handles :
        /\ dtr[h] => ctl = "reset_hold" /\ port = h
        /\ ~rts[h]
        /\ ResetInProgress(h) => lock[h] = "ctl"

\* each step of connect() and of reset_device()
C19_Step ==
    /\ ev'.op = "connect_opened" =>
          rpc[ev'.h] = "none" /\ rpc'[ev'.h] = "lock" /\ ~dtr'[ev'.h] /\ ~rts'[ev'.h]
    /\ ev'.op = "reset_assert" =>
          /\ ctl = "reset_lock" /\ lock[port] = "free"
          /\ lock'[port] = "ctl" /\ ~stale'[port] /\ dtr'[port]
    /\ ev'.op = "reset_deassert" =>
          /\ ctl = "reset_hold" /\ lock[port] = "ctl" /\ dtr[port]
          /\ lock'[port] = "ctl" /\ ~dtr'[port]
    /\ ev'.op = "reset_done" =>
          /\ ctl = "reset_low" /\ lock[port] = "ctl" /\ ~dtr[port]
          /\ lock'[port] = "free" /\ ~dtr'[port]
    /\ ev'.op \in {"reset_start", "reset_assert", "reset_deassert", "reset_done"} =>
          port # None /\ UNCHANGED <<port, rx, nopen, rpc, newport>>
    /\ ev'.op = "reset_noport" =>
          UNCHANGED <<appVars, ctlVars, hwVars, now, sent, taken, stale>>

\* C19: DTR is asserted only inside a reset: connect() leaves DTR and RTS
\* low when it spawns the reader; reset_device() clears the buffers and
\* raises DTR, holds, lowers DTR, holds, in that order and with the port lock
\* held throughout; outside a reset DTR and RTS of every open handle are
\* low; reset_device() with no port held does nothing, and no step of a
\* reset changes the connection.
C19_DtrOnlyInReset == C19_LinesLow /\ [][C19_LinesLow' /\ C19_Step]_vars

\* a reset has run to its end on the connection
C19_Witness ==
    /\ ev = Ev("reset_done", port)
    /\ port # None
    /\ ReaderAlive(port)
    /\ lock[port] = "free"

---------------------------------------------------------------------------
(* Claims about the hex input path, checked under SpecHex.                 *)

\* C11: hex round trip: when the send field holds the hex-display form of a
\* byte sequence b (two uppercase digits and a space per byte), followed or
\* not by an odd-length or non-hex trailing fragment, a send in hex-input
\* mode raises no error and its payload is exactly b.
C11_HexRoundTrip ==
    [][ev'.op \in {"send_start", "send_panic"} /\ is_hex_input =>
          \A b \in ByteSeqs(MaxBytes), f \in TrailFrags :
              send_data = HexStr(b) \o f => ev'.op = "send_start" /\ out' = b]_vars

---------------------------------------------------------------------------
(* Claims about the plot window, checked under SpecPlot.                   *)

\* C12: Clean Plot empties both sequences of every buffer and unsets its time
\* origin, and the first push after it yields a one-element buffer whose
\* timestamp is 0: the origin is recorded anew at the time of that push.
C12_ClearThenPush ==
    [][/\ ev'.op = "clean_plot" =>
             \A i \in Channels : plot_window'.plot_data[i] = EmptyPlotData
       /\ ev.op = "clean_plot" /\ plot_window'.plot_data # plot_window.plot_data =>
             \A i \in Channels :
                 /\ Len(plot_window'.plot_data[i].values) = 1
                 /\ plot_window'.plot_data[i].times = <<0>>
                 /\ plot_window'.plot_data[i].start_time = now]_vars

\* samples pushed at time 0 were cleared, and the one pushed since has
\* timestamp 0 at a later time
C12_Witness ==
    /\ ev.op = "frame"
    /\ taken = <<LineA, LineA>>
    /\ now > 0
    /\ \A i \in Channels :
          /\ plot_window.plot_data[i].times = <<0>>
          /\ plot_window.plot_data[i].start_time = now

\* C20: a fragment taken while the plot window is closed or paused changes
\* no sample buffer (values, timestamps and time origin of the four channels
\* stay as they were) and is appended to the raw log all the same.  The
\* frame of the Clean Plot button is left out: its click empties the buffers.
C20_PausedKeepsBuffers ==
    [][/\ taken' # taken
       /\ ~plot_window.is_open \/ plot_window.is_paused
       /\ ev'.op # "clean_plot"
       => /\ plot_window'.plot_data = plot_window.plot_data
          /\ received_data' = received_data \o Rendered(Received)]_vars

\* of two telemetry lines the first was taken with the plot running, the
\* second with the plot paused
C20_Witness ==
    /\ ev.op = "frame"
    /\ taken = <<LineA, LineA>>
    /\ plot_window.is_open
    /\ plot_window.is_paused
    /\ \A i \in Channels : plot_window.plot_data[i].values = <<10 * i>>

---------------------------------------------------------------------------
(* Claims about the telemetry stream, checked under SpecChunks.            *)

\* the text received so far: the fragments taken, one after the other
RECURSIVE Flatten(_)
Flatten(frags) == IF frags = <<>> THEN <<>> ELSE Head(frags) \o Flatten(Tail(frags))

\* the complete lines of a text, each up to and with its "\n"
RECURSIVE CompleteLines(_, _)
CompleteLines(text, cur) ==
    IF text = <<>> THEN <<>>
    ELSE IF Head(text) = "\n"
         THEN <<Append(cur, "\n")>> \o CompleteLines(Tail(text), <<>>)
         ELSE CompleteLines(Tail(text), Append(cur, Head(text)))

\* a complete line is well formed: the marker and four numeric tokens
WellFormed(line) == Len(LineValues(line)) = 4

\* the value of channel i in each well-formed line, in order of arrival
ChannelValues(lines, i) ==
    LET good == SelectSeq(lines, WellFormed)
    IN  [k \in DOMAIN good |-> LineValues(good[k])[i]]

LastN(seq, n) == SubSeq(seq, Len(seq) - Min(Len(seq), n) + 1, Len(seq))

\* C17: with the plot open and not paused, each buffer holds one sample for
\* every complete well-formed telemetry line of the text received so far,
\* the i-th number of the line in the i-th channel (the newest max_points
\* of them), however the reads have cut that text into fragments.
C17_OneSamplePerLine ==
    LET lines == CompleteLines(Flatten(taken), <<>>)
    IN  \A i \in Channels :
            plot_window.plot_data[i].values =
                LastN(ChannelValues(lines, i), plot_window.max_points)

=============================================================================
